---- MODULE Spec2Model ----
(***************************************************************************)
(* Model of the data-collection engines of AurisAASI/backend-core:         *)
(*   - GMapsScrapper          (src/src/models/scrappers/gmaps_scrapper.py) *)
(*   - WebsiteScrapper        (.../website_scrapper.py)                    *)
(*   - CompanyFederalScrapper (.../company_federal_scrapper.py)            *)
(*                                                                         *)
(* Python dicts are functions whose DOMAIN is the set of keys present.     *)
(* Coordinates are integers in microdegrees, distances are millimetres.    *)
(* An optional value (None / missing item) is a set with at most one       *)
(* element.                                                                *)
(***************************************************************************)
EXTENDS Integers, Sequences, FiniteSets, TLC

----------------------------------------------------------------------------
(* Bounds of the model                                                     *)

MaxPages == 2        \* pages after which the API returns no continuation token
MaxResults == 3      \* places returned to one invocation over all its pages

Runs == {1, 2}       \* place-discovery invocations sharing the tables

----------------------------------------------------------------------------
(* Program constants                                                       *)

TEXT_SEARCH_QUOTA_COST == 32
PLACE_DETAILS_QUOTA_COST == 17
DUPLICATE_DISTANCE_THRESHOLD_METERS == 50
R == 6371000

\* math.radians: pi / 180, in units of 10^-6
RadiansE6 == 17453

\* Number of phrases niche_terms.json configures for the niche
SearchTermCounts == {0, 1, 3}

\* daily_quota_limit values given to the constructor
QuotaLimits == {20, 50, 64, 1000}

----------------------------------------------------------------------------
(* Places API answers                                                      *)

\* Coordinates <<lat, lng>> in microdegrees.  PointA-PointB are 49.9 m apart,
\* PointA-PointC 50.04 m, PointB-PointC 0.1 m.
PointA == <<0, 0>>
PointB == <<449, 0>>
PointC == <<450, 0>>

\* Converted ("legacy format") search results the API may return; a key that
\* the API leaves out is absent from the dict.
SearchCatalog ==
    { [id |-> "p1", name |-> "n1", geometry |-> PointA, website |-> "w1"],
      [id |-> "p1", name |-> "n2", geometry |-> PointA, website |-> "w1"],
      [id |-> "p2", name |-> "n1", geometry |-> PointB],
      [id |-> "p2", name |-> "n1", geometry |-> PointC, website |-> "w2"],
      [id |-> "p3", name |-> "n1"],
      [name |-> "n1", geometry |-> PointA] }

PlaceIds == {"p1", "p2", "p3"}

\* {**a, **b}
Merge(a, b) ==
    [k \in (DOMAIN a) \cup (DOMAIN b) |-> IF k \in DOMAIN b THEN b[k] ELSE a[k]]

\* {k: v for k, v in d.items() if k != key}
Without(d, key) == [k \in (DOMAIN d) \ {key} |-> d[k]]

\* The details endpoint returns the expanded object of the requested place:
\* the fields of the search result plus the details-only field 'reviews'.
DetailsResponse(result) == Merge(result, [reviews |-> "r1"])

----------------------------------------------------------------------------
(* Pure helpers of GMapsScrapper                                           *)

RECURSIVE ISqrtIn(_, _, _)
ISqrtIn(n, lo, hi) ==
    IF lo >= hi THEN lo
    ELSE LET mid == (lo + hi + 1) \div 2
         IN IF mid * mid <= n THEN ISqrtIn(n, mid, hi) ELSE ISqrtIn(n, lo, mid - 1)

\* floor(sqrt(n)) for 0 <= n < 2^30
ISqrt(n) == ISqrtIn(n, 0, 32767)

\* Haversine distance in millimetres between two points given in
\* microdegrees.  For the coordinates of the catalog (within 0.001 degrees of
\* the origin) cos(lat) = 1 and sin(x) = x, atan2(sqrt(a), sqrt(1-a)) = sqrt(a)
\* to 10 digits, so c = sqrt(dlat^2 + dlng^2) radians and distance = R * c.
_calculate_distance(lat1, lng1, lat2, lng2) ==
    LET delta_lat == lat2 - lat1
        delta_lng == lng2 - lng1
        c10 == ISqrt(100 * (delta_lat * delta_lat + delta_lng * delta_lng))
    IN (c10 * (((R \div 1000) * RadiansE6) \div 1000)) \div 10000

HasCoords(place) == "geometry" \in DOMAIN place

IsDupOf(new_lat, new_lng, place) ==
    /\ HasCoords(place)
    /\ _calculate_distance(new_lat, new_lng, place.geometry[1], place.geometry[2])
         <= DUPLICATE_DISTANCE_THRESHOLD_METERS * 1000

\* Faulty variant: the loop starts at the second existing place.
_is_duplicate_location_skipfirst(new_lat, new_lng, existing_places) ==
    \E i \in 2..Len(existing_places) : IsDupOf(new_lat, new_lng, existing_places[i])

\* TRUE iff some existing place lies within the threshold (the Python method
\* returns that place, the caller only tests it for truth).
_is_duplicate_location(new_lat, new_lng, existing_places) ==
    \E i \in 1..Len(existing_places) : IsDupOf(new_lat, new_lng, existing_places[i])

\* Faulty variant: the cost of the next operation is left out of the comparison.
_check_quota_nocost(quota_used, required_quota, daily_quota_limit) ==
    ~ (quota_used > daily_quota_limit)

\* TRUE iff the operation fits (the status side effect is in FailQuota).
_check_quota(quota_used, required_quota, daily_quota_limit) ==
    ~ (quota_used + required_quota > daily_quota_limit)


\* existing_place.get(key) != value for some key of place
NeedsUpdate(existing_place, place) ==
    \E key \in DOMAIN place :
        \/ key \notin DOMAIN existing_place
        \/ existing_place[key] # place[key]

\* Faulty variant: the place item is written without the company link.
PlaceData_nolink(place, company_id) ==
    Merge([placeID |-> place.id], Without(place, "id"))

\* The item written for a new place: 'id' is stored as 'placeID'.
PlaceData(place, company_id) ==
    Merge([placeID |-> place.id, companyID |-> company_id], Without(place, "id"))

\* The CompanyRecord written for a new place; keys whose value is the empty
\* string are removed before the insert.
CompanyData(place, company_id, status, status_reason) ==
    LET data == [companyID |-> company_id, name |-> place.name, niche |-> "aasi",
                 collection_status |-> status]
    IN IF status_reason = "" THEN data
       ELSE Merge(data, [collection_reason |-> status_reason])

----------------------------------------------------------------------------
(* State                                                                   *)

VARIABLES
    run,              \* run[r]: the GMapsScrapper instance of invocation r
    places_table,     \* placeID -> {} or {item}
    companies_table,  \* set of company items
    queue,            \* messages sent to the website-scraper task queue
    uuid,             \* number of company identifiers generated so far
    created,          \* history: <<companyID, placeID>> of every company insert
    fed,              \* the CompanyFederalScrapper instance
    web,              \* the WebsiteScrapper instance
    federal_queue,    \* messages sent to the federal-scraper task queue
    invocations,      \* place-discovery invocations started so far
    validation,       \* a call of validate_cnpj: its argument and its result
    ranking,          \* a call of _discover_pages: candidates, sizes, result
    filtering         \* a call of _filter_main_pages: its argument and result

vars == <<run, places_table, companies_table, queue, uuid, created,
          fed, web, federal_queue, invocations, validation, ranking, filtering>>

\* what the place-discovery engine never touches
others == <<fed, web, federal_queue, invocations, validation, ranking, filtering>>

ZeroStats ==
    [text_searches |-> 0, details_fetched |-> 0, duplicates_by_id |-> 0,
     duplicates_by_location |-> 0, new_places |-> 0, updated_places |-> 0,
     skipped_places |-> 0, website_tasks_queued |-> 0]

\* The instance after __init__ and the environment of its invocation.
GMapsScrapper(nterms, limit, db, api_results, api_catalog) ==
    [pc |-> "collect_data",
     search_terms |-> nterms,         \* number of phrases of the niche
     daily_quota_limit |-> limit,
     quota_used |-> 0,
     status |-> "in_progress",
     status_reason |-> "",
     stats |-> ZeroStats,
     places |-> <<>>,
     db_handler |-> db,               \* FALSE: db_handler is None
     seen_place_ids |-> {},
     idx |-> 0,                       \* phrase being processed, 1-based
     page_count |-> 0,
     next_page_token |-> FALSE,
     text_results |-> 0,              \* results of the phrase not yet iterated
     result_id |-> {},                \* identifier of the result iterated last
     place_i |-> 0,                   \* position of _save_to_database in places
     existing_place |-> {},
     company_id |-> 0,
     api_left |-> api_results,        \* places the API still has to return
     api_catalog |-> api_catalog,     \* the search results it can return
     api_endless |-> FALSE,           \* the API never runs out of places and
                                      \* may return a token on every page
     last_call |-> "none",            \* history: the request the latest step issued
     quota_failed |-> FALSE,          \* history: some quota check has failed
     search_errors |-> FALSE,         \* history: some text-search request raised
     unexpected |-> FALSE,            \* history: a text search raised an
                                      \* exception other than RequestException
     returned_ids |-> {}]             \* history: identifiers iterated so far

Idle == [GMapsScrapper(0, 0, FALSE, 0, {}) EXCEPT !.pc = "idle"]

----------------------------------------------------------------------------
(* GMapsScrapper.collect_data                                              *)

\* Faulty variant: a failed quota check leaves the status as it was.
FailQuota_silent(g) ==
    [g EXCEPT !.quota_failed = TRUE, !.last_call = "none"]

\* _check_quota returning False
FailQuota(g) ==
    [g EXCEPT !.status = "partial_quota_exceeded",
              !.status_reason = "API quota limit reached",
              !.quota_failed = TRUE,
              !.last_call = "none"]

\* Faulty variant: quota_used is shared by all instances.
SetInstance_shared(runs, r, g) ==
    [s \in DOMAIN runs |->
        IF s = r THEN g ELSE [runs[s] EXCEPT !.quota_used = g.quota_used]]

\* The attributes are those of the instance ("self."): a step of invocation
\* r assigns to instance r only.
SetInstance(runs, r, g) == [runs EXCEPT ![r] = g]

\* Faulty variant: an empty phrase list is not noticed.
NoSearchTerms_ignored(search_terms) == FALSE

\* "if not self.search_terms"
NoSearchTerms(search_terms) == search_terms = 0

\* Entry of collect_data up to the first search.
CollectData(r) ==
    LET g == run[r] IN
    /\ g.pc = "collect_data"
    /\ IF NoSearchTerms(g.search_terms)
       THEN run' = SetInstance(run, r,
                [g EXCEPT !.status = "failed_no_search_terms",
                          !.status_reason = "No search terms configured for niche",
                          !.pc = "returned"])
       ELSE run' = SetInstance(run, r, [g EXCEPT !.idx = 1, !.pc = "text_search"])
    /\ UNCHANGED <<places_table, companies_table, queue, uuid, created, others>>

\* One iteration of the while loop of _search_places_text_search.
\* Faulty variant: a page is not charged to the ledger.
PayTextSearch_free(quota_used) == quota_used

\* self.quota_used += TEXT_SEARCH_QUOTA_COST
PayTextSearch(quota_used) == quota_used + TEXT_SEARCH_QUOTA_COST

\* One iteration of "while True" of _search_places_text_search.
TextSearchPage(r) ==
    LET g == run[r] IN
    /\ g.pc = "text_search"
    /\ UNCHANGED <<places_table, companies_table, queue, uuid, created, others>>
    /\ IF ~ _check_quota(g.quota_used, TEXT_SEARCH_QUOTA_COST, g.daily_quota_limit)
       THEN run' = SetInstance(run, r, [FailQuota(g) EXCEPT !.pc = "process"])
       ELSE LET sent == [g EXCEPT !.last_call = "text_search"] IN
            \/ \* requests.exceptions.RequestException
               run' = SetInstance(run, r,
                   [sent EXCEPT !.status = "failed_api_error",
                                !.status_reason = "Text search API request failed",
                                !.search_errors = TRUE,
                                !.pc = "process"])
            \/ \* any other exception (e.g. the body is not JSON)
               run' = SetInstance(run, r,
                   [sent EXCEPT !.search_errors = TRUE, !.unexpected = TRUE,
                                !.pc = "process"])
            \/ \E n \in (IF g.api_endless THEN 0..1 ELSE 0..g.api_left),
                  token \in BOOLEAN :
                 /\ token => (g.api_endless \/ g.page_count + 1 < MaxPages)
                 /\ LET paid == [sent EXCEPT
                                   !.quota_used = PayTextSearch(@),
                                   !.stats.text_searches = @ + 1,
                                   !.page_count = @ + 1,
                                   !.api_left = IF g.api_endless THEN @ ELSE @ - n]
                    IN run' = SetInstance(run, r,
                         IF n = 0
                         THEN [paid EXCEPT !.pc = "process"]
                         ELSE [paid EXCEPT !.text_results = @ + n,
                                           !.next_page_token = token,
                                           !.pc = IF token THEN "text_search"
                                                           ELSE "process"])

\* _get_place_details and the merge: the set of possible (instance, record).
Enrich(g, res) ==
    IF ~ _check_quota(g.quota_used, PLACE_DETAILS_QUOTA_COST, g.daily_quota_limit)
    THEN {<<FailQuota(g), res>>}
    ELSE LET sent == [g EXCEPT !.last_call = "details"] IN
         { \* request error or unexpected error: None
           <<sent, res>>,
           <<[sent EXCEPT !.quota_used = @ + PLACE_DETAILS_QUOTA_COST,
                          !.stats.details_fetched = @ + 1],
             Merge(res, DetailsResponse(res))>> }

\* Faulty variant: the identifier check is skipped.
IdDuplicate_never(place_id, seen_place_ids) == FALSE

IdDuplicate(place_id, seen_place_ids) == place_id \in seen_place_ids

\* Faulty variant: a place without details is dropped.
AddToCollection_detailed(places, merged_place) ==
    IF "reviews" \in DOMAIN merged_place THEN Append(places, merged_place)
    ELSE places

\* self.ensamble['places'].append(merged_place)
AddToCollection(places, merged_place) == Append(places, merged_place)

\* One iteration of "for result in text_results".
ProcessResult(r) ==
    LET g == run[r] IN
    /\ g.pc = "process"
    /\ g.text_results > 0
    /\ UNCHANGED <<places_table, companies_table, queue, uuid, created, others>>
    /\ \E res \in g.api_catalog :
         LET g1 == [g EXCEPT !.text_results = @ - 1, !.result_id = {},
                             !.last_call = "none"] IN
         IF "id" \notin DOMAIN res
         THEN run' = SetInstance(run, r, g1)
         ELSE LET g2 == [g1 EXCEPT !.returned_ids = @ \cup {res.id},
                                   !.result_id = {res.id}] IN
              IF IdDuplicate(res.id, g.seen_place_ids)
              THEN run' = SetInstance(run, r,
                       [g2 EXCEPT !.stats.duplicates_by_id = @ + 1])
              ELSE IF /\ HasCoords(res)
                      /\ _is_duplicate_location(res.geometry[1], res.geometry[2],
                                                g.places)
              THEN run' = SetInstance(run, r,
                       [g2 EXCEPT !.stats.duplicates_by_location = @ + 1])
              ELSE \E e \in Enrich([g2 EXCEPT !.seen_place_ids = @ \cup {res.id}],
                                   res) :
                       run' = SetInstance(run, r,
                           [e[1] EXCEPT !.places = AddToCollection(@, e[2])])

\* Faulty variant: the phrase loop goes on after a failed quota check.
StopAfterTerm_never(status) == FALSE

\* "if self.ensamble['status'] == 'partial_quota_exceeded': break"
StopAfterTerm(status) == status = "partial_quota_exceeded"

\* else-branch of "if self.ensamble['places']"
NoResultsStatus(status) ==
    IF status = "in_progress" THEN "completed_no_results" ELSE status

\* The locals of the phrase loop are not read after it.
EndLoop(g) ==
    [g EXCEPT !.result_id = {}, !.seen_place_ids = {}, !.returned_ids = {},
              !.idx = 0, !.page_count = 0, !.next_page_token = FALSE,
              !.api_left = 0, !.last_call = "none"]

\* End of a phrase: next phrase, or the end of the loop and the entry of
\* _save_to_database.
TermEnd(r) ==
    LET g == run[r] IN
    /\ g.pc = "process"
    /\ g.text_results = 0
    /\ UNCHANGED <<places_table, companies_table, queue, uuid, created, others>>
    /\ IF ~ StopAfterTerm(g.status) /\ g.idx < g.search_terms
       THEN run' = SetInstance(run, r,
                [g EXCEPT !.idx = @ + 1, !.page_count = 0,
                          !.next_page_token = FALSE, !.last_call = "none",
                          !.pc = "text_search"])
       ELSE LET e == EndLoop(g) IN
            IF e.places # <<>>
            THEN IF e.db_handler
                 THEN run' = SetInstance(run, r, [e EXCEPT !.place_i = 1, !.pc = "save"])
                 ELSE \* _save_to_database returns False at once
                      run' = SetInstance(run, r, [e EXCEPT !.pc = "returned"])
            ELSE run' = SetInstance(run, r,
                     [e EXCEPT !.status = NoResultsStatus(e.status),
                               !.status_reason =
                                   IF e.status = "in_progress"
                                   THEN "No places found for search terms" ELSE @,
                               !.pc = "returned"])

----------------------------------------------------------------------------
(* GMapsScrapper._save_to_database                                         *)

Returned(g) ==
    \* "if save_success and self.ensamble['status'] == 'in_progress'"
    IF g.status = "in_progress"
    THEN [g EXCEPT !.status = "completed",
                   !.status_reason = "Collection completed successfully",
                   !.pc = "returned"]
    ELSE [g EXCEPT !.pc = "returned"]

NextPlace(g) ==
    [g EXCEPT !.place_i = @ + 1, !.existing_place = {}, !.company_id = 0,
              !.pc = "save"]

\* Faulty variant: a place whose write raised is counted as new.
SkipPlace_counted(g) == NextPlace([g EXCEPT !.stats.new_places = @ + 1])

\* "except Exception ... continue" of the loop body: the error is logged and
\* the loop goes on with the next place; nothing written before is undone.
SkipPlace(g) == NextPlace(g)

\* Head of the loop body: the place is skipped, or looked up with get_item.
SaveGetItem(r) ==
    LET g == run[r] IN
    /\ g.pc = "save"
    /\ g.place_i <= Len(g.places)
    /\ UNCHANGED <<places_table, companies_table, queue, uuid, created, others>>
    /\ LET place == g.places[g.place_i] IN
       IF "id" \notin DOMAIN place \/ ~ HasCoords(place)
       THEN run' = SetInstance(run, r, NextPlace(g))
       ELSE \/ run' = SetInstance(run, r,
                   [g EXCEPT !.existing_place = places_table[place.id],
                             !.pc = "save_write"])
            \/ \* get_item raises: the place is taken for a new one
               run' = SetInstance(run, r,
                   [g EXCEPT !.existing_place = {}, !.pc = "save_write"])

\* The loop is over: _save_to_database returns True.
SaveDone(r) ==
    LET g == run[r] IN
    /\ g.pc = "save"
    /\ g.place_i > Len(g.places)
    /\ run' = SetInstance(run, r, Returned(g))
    /\ UNCHANGED <<places_table, companies_table, queue, uuid, created, others>>

\* update_item: a partial-field merge into the stored item (created if absent).
UpdateItem(stored, place) ==
    IF stored = {} THEN {Merge([placeID |-> place.id], place)}
    ELSE {Merge(item, place) : item \in stored}

\* After the lookup.  "if existing_place": the stored item is updated or the
\* place skipped; otherwise the company identifier is generated and the
\* company inserted.
SaveWrite(r) ==
    LET g == run[r]
        place == g.places[g.place_i]
        company_id == uuid + 1 IN
    /\ g.pc = "save_write"
    /\ UNCHANGED <<queue, others>>
    /\ IF g.existing_place # {}
       THEN /\ UNCHANGED <<companies_table, uuid, created>>
            /\ IF \E existing \in g.existing_place : NeedsUpdate(existing, place)
               THEN \/ /\ places_table' = [places_table EXCEPT ![place.id] =
                                               UpdateItem(@, place)]
                       /\ run' = SetInstance(run, r,
                               NextPlace([g EXCEPT !.stats.updated_places = @ + 1]))
                    \/ \* update_item raises
                       /\ run' = SetInstance(run, r, NextPlace(g))
                       /\ UNCHANGED places_table
               ELSE /\ run' = SetInstance(run, r,
                            NextPlace([g EXCEPT !.stats.skipped_places = @ + 1]))
                    /\ UNCHANGED places_table
       ELSE /\ uuid' = company_id
            /\ UNCHANGED places_table
            /\ \/ /\ companies_table' = companies_table \cup
                         {CompanyData(place, company_id, g.status, g.status_reason)}
                  /\ created' = created \cup {<<company_id, place.id>>}
                  /\ run' = SetInstance(run, r,
                          [g EXCEPT !.company_id = company_id, !.pc = "save_place"])
               \/ \* insert_item raises
                  /\ run' = SetInstance(run, r, SkipPlace(g))
                  /\ UNCHANGED <<companies_table, created>>

\* _queue_website_scraping_task: the possible (queue, stats) after it.
QueueWebsite(q, stats, company_id, website) ==
    { <<Append(q, [company_id |-> company_id, website |-> website]),
        [stats EXCEPT !.website_tasks_queued = @ + 1]>>,
      \* queue URL not configured, or send_message raises
      <<q, stats>> }

\* New place: the place item is inserted and the website task queued.
SaveInsertPlace(r) ==
    LET g == run[r]
        place == g.places[g.place_i] IN
    /\ g.pc = "save_place"
    /\ UNCHANGED <<companies_table, uuid, created, others>>
    /\ \/ /\ places_table' = [places_table EXCEPT ![place.id] =
                                  {PlaceData(place, g.company_id)}]
          /\ LET g1 == [g EXCEPT !.stats.new_places = @ + 1] IN
             IF "website" \in DOMAIN place
             THEN \E o \in QueueWebsite(queue, g1.stats, g.company_id, place.website) :
                      /\ queue' = o[1]
                      /\ run' = SetInstance(run, r, NextPlace([g1 EXCEPT !.stats = o[2]]))
             ELSE /\ run' = SetInstance(run, r, NextPlace(g1))
                  /\ UNCHANGED queue
       \/ \* insert_item raises
          /\ run' = SetInstance(run, r, SkipPlace(g))
          /\ UNCHANGED <<places_table, queue>>

GMapsNext(r) ==
    \/ CollectData(r)
    \/ TextSearchPage(r)
    \/ ProcessResult(r)
    \/ TermEnd(r)
    \/ SaveGetItem(r)
    \/ SaveDone(r)
    \/ SaveWrite(r)
    \/ SaveInsertPlace(r)

----------------------------------------------------------------------------
(* Companies table, as the website and registry engines use it             *)

\* update_item on the companies table: a partial-field merge by companyID.
UpdateCompany(table, company_id, updates) ==
    IF \E c \in table : c.companyID = company_id
    THEN {IF c.companyID = company_id THEN Merge(c, updates) ELSE c : c \in table}
    ELSE table \cup {Merge([companyID |-> company_id], updates)}

\* The company the website and registry engines are invoked for.
TargetCompany == 1

----------------------------------------------------------------------------
(* CompanyFederalScrapper                                                  *)

MAX_RETRIES == 2

RATE_LIMIT_DELAY_MS == 100

\* What one GET of the registry API can produce: an HTTP response with its
\* status code and decoded JSON body, or an exception of requests.get.
FederalResponses ==
    {[kind |-> "http", code |-> 200, body |-> b] : b \in {"registry_record", "{}"}}
    \cup {[kind |-> "http", code |-> c, body |-> ""] : c \in {201, 404, 429, 500}}
    \cup {[kind |-> k, code |-> 0, body |-> ""] :
              k \in {"connect_timeout", "read_timeout", "timeout",
                     "request_error", "unexpected_error"}}

CompanyFederalScrapper(cnpj_ok, db) ==
    [pc |-> "collect_data",
     cnpj_ok |-> cnpj_ok,           \* cnpj is non-empty and 14 characters long
     status |-> "in_progress",
     status_reason |-> "",
     data_fetched |-> FALSE,
     db_handler |-> db,
     attempt |-> 0,
     federal_data |-> "None",       \* value returned by _fetch_opencnpj_data
     requests |-> 0,                \* history: GET requests issued
     log |-> <<>>,                  \* history: sleeps, requests and answers, as
                                    \* [op, n]: n is milliseconds of a sleep,
                                    \* the status code of an answer
     backoffs |-> <<>>,             \* history: waits before retries, seconds
     saved |-> FALSE]               \* history: update_item succeeded

FedIdle == [CompanyFederalScrapper(FALSE, FALSE) EXCEPT !.pc = "idle"]

\* CompanyFederalScrapper._save_to_database: the possible outcomes.
FedSave(f, table, federal_data) ==
    IF ~ f.db_handler THEN {<<f, table>>}
    ELSE { <<[f EXCEPT !.saved = TRUE],
             UpdateCompany(table, TargetCompany,
                 [federal_data |-> federal_data,
                  federal_scraping_status |-> f.status,
                  federal_scraping_reason |-> f.status_reason])>>,
           \* update_item raises
           <<[f EXCEPT !.status = "failed",
                       !.status_reason = "Database save failed"], table>> }

\* Entry of collect_data: the length check.
FedCollectData ==
    /\ fed.pc = "collect_data"
    /\ UNCHANGED <<run, places_table, queue, uuid, created, web, federal_queue, invocations, validation, ranking, filtering>>
    /\ IF fed.cnpj_ok
       THEN /\ fed' = [fed EXCEPT !.attempt = 1, !.pc = "fetch"]
            /\ UNCHANGED companies_table
       ELSE \E o \in FedSave([fed EXCEPT !.status = "failed",
                                         !.status_reason = "Invalid CNPJ"],
                             companies_table, "{}") :
                /\ fed' = [o[1] EXCEPT !.pc = "returned"]
                /\ companies_table' = o[2]

\* Faulty variant: no retry is ever granted.
RetryRemaining_never(attempt) == FALSE

\* "if attempt <= MAX_RETRIES" (429) / "if attempt > MAX_RETRIES: ... return None"
RetryRemaining(attempt) == attempt <= MAX_RETRIES

\* "for attempt in range(1, MAX_RETRIES + 2)"
InRange(attempt) == attempt <= MAX_RETRIES + 1

\* Faulty variant: the attempt counter does not advance.
NextAttempt_stuck(attempt) == attempt

\* the next value of "for attempt in range(...)"
NextAttempt(attempt) == attempt + 1

\* Faulty variant: the wait does not grow.
Backoff_constant(attempt) == 2

\* "wait_time = 2 ** (attempt - 1)", seconds
Backoff(attempt) == 2 ^ (attempt - 1)

\* Faulty variant: a 404 is handled like any other error status.
IsNotFound_never(code) == FALSE

\* "elif response.status_code == 404"
IsNotFound(code) == code = 404

\* "if response.status_code == 200"
IsOk(code) == code = 200

\* The sleep, the request and its answer, appended to the log.
FedLog(log, attempt, resp) ==
    log \o << IF attempt > 1
              THEN [op |-> "backoff", n |-> 1000 * Backoff(attempt)]
              ELSE [op |-> "rate_limit_delay", n |-> RATE_LIMIT_DELAY_MS],
              [op |-> "get", n |-> 0],
              [op |-> resp.kind, n |-> resp.code] >>

\* One iteration of the retry loop of _fetch_opencnpj_data.
FedAttempt ==
    /\ fed.pc = "fetch"
    /\ InRange(fed.attempt)
    /\ UNCHANGED <<run, places_table, companies_table, queue, uuid, created, web,
                   federal_queue, invocations, validation, ranking, filtering>>
    /\ \E resp \in FederalResponses :
         LET f == [fed EXCEPT !.requests = @ + 1,
                              !.backoffs = IF fed.attempt > 1
                                           THEN Append(@, Backoff(fed.attempt))
                                           ELSE @,
                              !.log = FedLog(@, fed.attempt, resp)]
             fail(reason) == [f EXCEPT !.status = "failed", !.status_reason = reason,
                                       !.pc = "fetched"]
             \* "continue": the next attempt, or the end of the loop
             retry == IF InRange(NextAttempt(fed.attempt))
                      THEN [f EXCEPT !.attempt = NextAttempt(@)]
                      ELSE fail("API request failed - max retries exceeded")
         IN fed' =
            CASE resp.kind = "http" ->
                   IF IsOk(resp.code)
                   THEN [f EXCEPT !.federal_data = resp.body, !.pc = "fetched"]
                   ELSE IF IsNotFound(resp.code)
                   THEN [f EXCEPT !.status = "completed",
                                  !.status_reason = "CNPJ not found in federal registry",
                                  !.pc = "fetched"]
                   ELSE IF resp.code = 429
                   THEN IF RetryRemaining(fed.attempt) THEN retry
                        ELSE fail("API rate limit exceeded")
                   ELSE fail("API error: HTTP")
              [] resp.kind = "connect_timeout" ->
                   IF RetryRemaining(fed.attempt) THEN retry
                   ELSE fail("API connection timeout")
              [] resp.kind = "read_timeout" ->
                   IF RetryRemaining(fed.attempt) THEN retry
                   ELSE fail("API read timeout")
              [] resp.kind = "timeout" ->
                   IF RetryRemaining(fed.attempt) THEN retry
                   ELSE fail("API request timeout")
              [] resp.kind = "request_error" -> fail("API request failed")
              [] OTHER -> fail("Unexpected error")

\* collect_data after _fetch_opencnpj_data returned.
FedAfterFetch ==
    /\ fed.pc = "fetched"
    /\ UNCHANGED <<run, places_table, queue, uuid, created, web, federal_queue, invocations, validation, ranking, filtering>>
    /\ LET f == IF fed.federal_data = "registry_record"
                THEN [fed EXCEPT !.data_fetched = TRUE, !.status = "completed",
                                 !.status_reason = "Successfully fetched federal data"]
                ELSE fed
           data == IF fed.federal_data = "registry_record" THEN "registry_record"
                   ELSE "{}"
       IN \E o \in FedSave(f, companies_table, data) :
              /\ fed' = [o[1] EXCEPT !.pc = "returned"]
              /\ companies_table' = o[2]

FederalNext ==
    \/ FedCollectData
    \/ FedAttempt
    \/ FedAfterFetch

----------------------------------------------------------------------------
(* Registry identifier validation (shared/utils.py)                        *)

\* A string is a sequence of one-character strings.
DigitChars == {"0", "1", "2", "3", "4", "5", "6", "7", "8", "9"}

\* int(digit)
IntOf(digit) ==
    CASE digit = "0" -> 0 [] digit = "1" -> 1 [] digit = "2" -> 2
      [] digit = "3" -> 3 [] digit = "4" -> 4 [] digit = "5" -> 5
      [] digit = "6" -> 6 [] digit = "7" -> 7 [] digit = "8" -> 8
      [] digit = "9" -> 9

\* re.sub(r'[^\d]', '', cnpj)
RECURSIVE StripNonDigits(_)
StripNonDigits(cnpj) ==
    IF cnpj = <<>> THEN <<>>
    ELSE IF Head(cnpj) \in DigitChars
         THEN <<Head(cnpj)>> \o StripNonDigits(Tail(cnpj))
         ELSE StripNonDigits(Tail(cnpj))

\* sum(int(digit) * weight for digit, weight in zip(cnpj_partial, weights))
RECURSIVE WeightedSum(_, _)
WeightedSum(cnpj_partial, weights) ==
    IF cnpj_partial = <<>> \/ weights = <<>> THEN 0
    ELSE IntOf(Head(cnpj_partial)) * Head(weights)
         + WeightedSum(Tail(cnpj_partial), Tail(weights))

\* Faulty variant: the weights are not applied.
calculate_check_digit_unweighted(cnpj_partial, weights) ==
    LET remainder == WeightedSum(cnpj_partial, [i \in DOMAIN weights |-> 1]) % 11
    IN  IF remainder < 2 THEN 0 ELSE 11 - remainder

calculate_check_digit(cnpj_partial, weights) ==
    LET remainder == WeightedSum(cnpj_partial, weights) % 11
    IN  IF remainder < 2 THEN 0 ELSE 11 - remainder

weights_first == <<5, 4, 3, 2, 9, 8, 7, 6, 5, 4, 3, 2>>

weights_second == <<6, 5, 4, 3, 2, 9, 8, 7, 6, 5, 4, 3, 2>>

validate_cnpj(cnpj) ==
    LET cnpj_digits == StripNonDigits(cnpj) IN
    IF cnpj = <<>> THEN FALSE
    ELSE IF Len(cnpj_digits) # 14 THEN FALSE
    ELSE IF \A i \in 1..14 : cnpj_digits[i] = cnpj_digits[1] THEN FALSE
    ELSE IF IntOf(cnpj_digits[13])
              # calculate_check_digit(SubSeq(cnpj_digits, 1, 12), weights_first)
         THEN FALSE
    ELSE IntOf(cnpj_digits[14])
           = calculate_check_digit(SubSeq(cnpj_digits, 1, 13), weights_second)

\* clean_cnpj: the digits of cnpj, or None (here the empty string, which
\* is as false as None) when they are not 14.
clean_cnpj(cnpj) ==
    LET cnpj_digits == StripNonDigits(cnpj) IN
    IF cnpj = <<>> THEN <<>>
    ELSE IF Len(cnpj_digits) # 14 THEN <<>>
    ELSE cnpj_digits

\* The digits d written as XX.XXX.XXX/XXXX-XX.
Formatted(d) ==
    SubSeq(d, 1, 2) \o <<".">> \o SubSeq(d, 3, 5) \o <<".">> \o SubSeq(d, 6, 8)
      \o <<"/">> \o SubSeq(d, 9, 12) \o <<"-">> \o SubSeq(d, 13, 14)

\* "11222333000181"
ExampleDigits ==
    <<"1", "1", "2", "2", "2", "3", "3", "3", "0", "0", "0", "1", "8", "1">>

\* The digits d with the i-th replaced by x.
Replaced(d, i, x) == [d EXCEPT ![i] = x]

\* Arguments of validate_cnpj: the example and every string that differs
\* from it in one digit, every string of 14 identical digits, each with and
\* without punctuation; strings of 13 and of 15 digits; the empty string.
CnpjInputs ==
    LET digits == {Replaced(ExampleDigits, i, x) : i \in 1..14, x \in DigitChars}
                  \cup {[i \in 1..14 |-> x] : x \in DigitChars}
    IN  digits \cup {Formatted(d) : d \in digits}
          \cup {SubSeq(ExampleDigits, 1, 13), ExampleDigits \o <<"1">>, <<>>}

NoValidation == [pc |-> "idle", cnpj |-> <<>>, result |-> FALSE]

ValidateCnpj ==
    /\ validation.pc = "validate_cnpj"
    /\ validation' = [validation EXCEPT !.pc = "returned",
                                        !.result = validate_cnpj(validation.cnpj)]
    /\ UNCHANGED <<run, places_table, companies_table, queue, uuid, created,
                   fed, web, federal_queue, invocations, ranking, filtering>>

----------------------------------------------------------------------------
(* WebsiteScrapper                                                         *)

MAX_PAGES_PER_SITE == 15

MaxCandidates == 2   \* candidate URLs the three discovery strategies yield

\* What _extract_structured_data can return: {} or a payload, whose 'cnpj'
\* is missing, passes clean_cnpj/validate_cnpj, or fails them.
Extractions == {"{}", "no_cnpj", "valid_cnpj", "invalid_cnpj", "short_cnpj"}

\* website_data.get('cnpj') of each of them: nothing, the example with
\* punctuation, the example with a wrong check digit, 13 digits.
ExtractedCnpj(website_data) ==
    CASE website_data = "valid_cnpj" -> Formatted(ExampleDigits)
      [] website_data = "invalid_cnpj" -> Formatted(Replaced(ExampleDigits, 13, "7"))
      [] website_data = "short_cnpj" -> SubSeq(ExampleDigits, 1, 13)
      [] OTHER -> <<>>

\* Faulty variant: any extracted identifier starts a registry lookup.
QueuesFederal_unchecked(website_data) ==
    website_data # "{}" /\ ExtractedCnpj(website_data) # <<>>

\* The conditions under which _queue_federal_scraping_task is called.
QueuesFederal(website_data) ==
    /\ website_data # "{}" /\ ExtractedCnpj(website_data) # <<>>
    /\ LET cleaned_cnpj == clean_cnpj(ExtractedCnpj(website_data))
       IN  cleaned_cnpj # <<>> /\ validate_cnpj(cleaned_cnpj)

\* Faulty variant: the extraction also runs without any page content.
NoPagesContent_never(pages_content) == FALSE

\* "if not pages_content"
NoPagesContent(pages_content) == pages_content = 0

WebsiteScrapper(db) ==
    [pc |-> "collect_data",
     status |-> "in_progress",
     status_reason |-> "",
     pages_fetched |-> 0,
     pages_failed |-> 0,
     db_handler |-> db,
     candidate_urls |-> 0,          \* candidates not yet validated
     valid_pages |-> 0,             \* candidates that answered 200
     pages_to_fetch |-> 0,          \* selected pages not yet fetched
     tried |-> 0,                   \* len(pages_to_fetch)
     pages_content |-> 0,           \* selected pages fetched
     llm_calls |-> 0,               \* history: extraction calls
     website_data |-> "None",       \* history: what the extraction returned
     robots |-> "none",             \* history: how the robots.txt check went
     discovery |-> FALSE,           \* history: _discover_pages was called
     saved |-> FALSE]               \* history: update_item succeeded

WebIdle == [WebsiteScrapper(FALSE) EXCEPT !.pc = "idle"]

\* WebsiteScrapper._save_to_database: the possible outcomes.
WebSave(w, table, website_data) ==
    IF ~ w.db_handler THEN {<<w, table>>}
    ELSE { <<[w EXCEPT !.saved = TRUE],
             UpdateCompany(table, TargetCompany,
                 [website_data |-> website_data,
                  website_scraping_status |-> w.status,
                  website_scraping_reason |-> w.status_reason])>>,
           \* update_item raises
           <<[w EXCEPT !.status = "failed",
                       !.status_reason = "Database save failed"], table>> }

\* _fetch_page_content: 200, or anything else.
FetchPage(w) ==
    { <<TRUE, [w EXCEPT !.pages_fetched = @ + 1]>>,
      <<FALSE, [w EXCEPT !.pages_failed = @ + 1]>> }

\* How the robots.txt check can go: the file is read and allows or disallows
\* the user agent, reading it raises, or evaluating it raises.
RobotsOutcomes == {"allowed", "disallowed", "read_error", "can_fetch_error"}

\* Faulty variant: an unreadable robots.txt forbids the site.
_check_robots_txt_failclosed(outcome) == outcome = "allowed"

_check_robots_txt(outcome) ==
    IF outcome = "read_error" THEN TRUE
    ELSE IF outcome = "can_fetch_error" THEN TRUE
    ELSE outcome = "allowed"

\* Faulty variant: a disallowing robots.txt is reported as a failure.
Disallowed_failed(w) ==
    [w EXCEPT !.status = "failed",
              !.status_reason = "Scraping disallowed by robots.txt"]

\* The outcome of a run that robots.txt disallows.
Disallowed(w) ==
    [w EXCEPT !.status = "completed",
              !.status_reason = "Scraping disallowed by robots.txt"]

\* Entry of collect_data: the robots.txt check, then either the early return
\* or the call of _discover_pages.
WebRobots ==
    /\ web.pc = "collect_data"
    /\ UNCHANGED <<run, places_table, queue, uuid, created, fed, federal_queue, invocations, validation, ranking, filtering>>
    /\ \E outcome \in RobotsOutcomes :
         LET w == [web EXCEPT !.robots = outcome] IN
         IF _check_robots_txt(outcome)
         THEN /\ web' = [w EXCEPT !.discovery = TRUE, !.pc = "discover"]
              /\ UNCHANGED companies_table
         ELSE \E o \in WebSave(Disallowed(w), companies_table, "{}") :
                 /\ web' = [o[1] EXCEPT !.pc = "returned"]
                 /\ companies_table' = o[2]

\* _discover_pages, step 1: the three strategies collect candidate URLs.
WebDiscover ==
    /\ web.pc = "discover"
    /\ \E n \in 0..MaxCandidates :
           web' = [web EXCEPT !.candidate_urls = n, !.pc = "validate"]
    /\ UNCHANGED <<run, places_table, companies_table, queue, uuid, created, fed,
                   federal_queue, invocations, validation, ranking, filtering>>

\* _discover_pages, step 2: one candidate is validated by fetching it.
WebValidate ==
    /\ web.pc = "validate"
    /\ web.candidate_urls > 0
    /\ UNCHANGED <<run, places_table, companies_table, queue, uuid, created, fed,
                   federal_queue, invocations, validation, ranking, filtering>>
    /\ \E o \in FetchPage(web) :
           web' = [o[2] EXCEPT !.candidate_urls = @ - 1,
                               !.valid_pages = IF o[1] THEN @ + 1 ELSE @]

\* valid_pages[:MAX_PAGES_PER_SITE]
SelectCount(valid) == IF valid < MAX_PAGES_PER_SITE THEN valid ELSE MAX_PAGES_PER_SITE

\* _discover_pages, step 3: the top pages are selected.
WebSelect ==
    /\ web.pc = "validate"
    /\ web.candidate_urls = 0
    /\ web' = [web EXCEPT !.pages_to_fetch = SelectCount(web.valid_pages),
                          !.tried = SelectCount(web.valid_pages),
                          !.pc = "fetch"]
    /\ UNCHANGED <<run, places_table, companies_table, queue, uuid, created, fed,
                   federal_queue, invocations, validation, ranking, filtering>>

\* One iteration of the fetch loop of collect_data.
WebFetch ==
    /\ web.pc = "fetch"
    /\ web.pages_to_fetch > 0
    /\ UNCHANGED <<run, places_table, companies_table, queue, uuid, created, fed,
                   federal_queue, invocations, validation, ranking, filtering>>
    /\ \E o \in FetchPage(web) :
           web' = [o[2] EXCEPT !.pages_to_fetch = @ - 1,
                               !.pages_content = IF o[1] THEN @ + 1 ELSE @]

\* Status after the extraction.
ExtractionStatus(website_data, pages_failed) ==
    IF website_data # "{}"
    THEN IF pages_failed > 0
         THEN <<"partial", "Data extracted, some pages failed">>
         ELSE <<"completed", "Successfully scraped pages">>
    ELSE <<"failed", "Failed to extract structured data from pages">>

\* collect_data after the fetch loop: extraction, save, follow-on task.
WebFinish ==
    /\ web.pc = "fetch"
    /\ web.pages_to_fetch = 0
    /\ UNCHANGED <<run, places_table, queue, uuid, created, fed, invocations, validation, ranking, filtering>>
    /\ IF NoPagesContent(web.pages_content)
       THEN /\ \E o \in WebSave([web EXCEPT !.status = "partial",
                                            !.status_reason =
                                                "Failed to fetch any pages"],
                                companies_table, "{}") :
                  /\ web' = [o[1] EXCEPT !.pc = "returned"]
                  /\ companies_table' = o[2]
            /\ UNCHANGED federal_queue
       ELSE \E website_data \in Extractions :
              LET st == ExtractionStatus(website_data, web.pages_failed)
                  w == [web EXCEPT !.llm_calls = @ + 1,
                                   !.website_data = website_data,
                                   !.status = st[1], !.status_reason = st[2]]
              IN /\ \E o \in WebSave(w, companies_table, website_data) :
                       /\ web' = [o[1] EXCEPT !.pc = "returned"]
                       /\ companies_table' = o[2]
                 /\ IF QueuesFederal(website_data)
                    THEN \/ federal_queue' =
                               Append(federal_queue, [company_id |-> TargetCompany])
                         \/ \* queue URL not configured, or send_message raises
                            UNCHANGED federal_queue
                    ELSE UNCHANGED federal_queue

\* An unexpected exception inside the try block of collect_data.
WebUnexpected ==
    /\ web.pc \in {"discover", "validate", "fetch"}
    /\ UNCHANGED <<run, places_table, queue, uuid, created, fed, federal_queue, invocations, validation, ranking, filtering>>
    /\ \E o \in WebSave([web EXCEPT !.status = "failed",
                                    !.status_reason = "Scraping error"],
                        companies_table, "{}") :
           /\ web' = [o[1] EXCEPT !.pc = "returned"]
           /\ companies_table' = o[2]

WebsiteNext ==
    \/ WebRobots
    \/ WebDiscover
    \/ WebValidate
    \/ WebSelect
    \/ WebFetch
    \/ WebFinish
    \/ WebUnexpected

----------------------------------------------------------------------------
(* Page ranking of _discover_pages (steps 2 and 3)                         *)

NotFetched == 0 - 1   \* _fetch_page_content returned None

\* len(html_content) of the pages of the sites; 0 is a 200 with an empty body.
ContentSizes == {NotFetched, 0, 100, 500, 3000, 8000}

SmallSite == 4   \* candidate URLs of a small site

LargeSite == 17  \* candidate URLs of a site with more than MAX_PAGES_PER_SITE

\* The sites: url -> what fetching it yields. URLs are numbered in the order
\* in which the candidate set is iterated.
Sites ==
    [1..SmallSite -> ContentSizes]
      \cup { [u \in 1..LargeSite |-> 100 * u],
             [u \in 1..LargeSite |-> 100 * (LargeSite + 1 - u)],
             [u \in 1..LargeSite |-> 500],
             [u \in 1..LargeSite |-> IF u % 3 = 0 THEN NotFetched ELSE 100 * (u % 5)] }

\* The place of a page in a list sorted by size, descending: behind every
\* page that is at least as large (the sort is stable).
RECURSIVE InsertBySize(_, _)
InsertBySize(page, sorted) ==
    IF sorted = <<>> THEN <<page>>
    ELSE IF Head(sorted)[2] >= page[2]
         THEN <<Head(sorted)>> \o InsertBySize(page, Tail(sorted))
         ELSE <<page>> \o sorted

\* The first n pages of valid_pages, sorted.
RECURSIVE SortedPrefix(_, _)
SortedPrefix(valid_pages, n) ==
    IF n = 0 THEN <<>>
    ELSE InsertBySize(valid_pages[n], SortedPrefix(valid_pages, n - 1))

\* Faulty variant: the pages stay in the order of their validation.
SortBySizeDesc_unsorted(valid_pages) == valid_pages

\* valid_pages.sort(key=lambda x: x[1], reverse=True)
SortBySizeDesc(valid_pages) == SortedPrefix(valid_pages, Len(valid_pages))

\* [url for url, size in valid_pages[:limit]]
SelectTop(valid_pages, limit) ==
    LET n == IF Len(valid_pages) < limit THEN Len(valid_pages) ELSE limit
    IN  [i \in 1..n |-> valid_pages[i][1]]

\* A call of _discover_pages after the candidates were collected; max_pages
\* is the value of MAX_PAGES_PER_SITE in force.
DiscoverPages(site, max_pages) ==
    [pc |-> "validate", site |-> site, max_pages |-> max_pages, idx |-> 1,
     valid_pages |-> <<>>, selected_pages |-> <<>>]

NoRanking == [DiscoverPages(<<>>, 0) EXCEPT !.pc = "idle"]

\* Step 2, one iteration: a candidate is fetched and kept if it has content.
RankValidate ==
    /\ ranking.pc = "validate"
    /\ ranking.idx <= Len(ranking.site)
    /\ LET content_size == ranking.site[ranking.idx] IN
       ranking' = [ranking EXCEPT
                     !.idx = @ + 1,
                     !.valid_pages = IF content_size > 0
                                     THEN Append(@, <<ranking.idx, content_size>>)
                                     ELSE @]
    /\ UNCHANGED <<run, places_table, companies_table, queue, uuid, created,
                   fed, web, federal_queue, invocations, validation, filtering>>

\* Step 3: the valid pages are sorted and the first max_pages are returned.
RankSelect ==
    /\ ranking.pc = "validate"
    /\ ranking.idx > Len(ranking.site)
    /\ ranking' = [ranking EXCEPT
                     !.pc = "returned",
                     !.valid_pages = SortBySizeDesc(@),
                     !.selected_pages =
                         IF ranking.valid_pages = <<>> THEN <<>>
                         ELSE SelectTop(SortBySizeDesc(ranking.valid_pages),
                                        ranking.max_pages)]
    /\ UNCHANGED <<run, places_table, companies_table, queue, uuid, created,
                   fed, web, federal_queue, invocations, validation, filtering>>

----------------------------------------------------------------------------
(* Sitemap filtering: _filter_main_pages                                   *)

\* A URL is the list of its parts between "/" (<<"https:", "", host, ...>>),
\* whether a "/" ends it, and whether a query string or an anchor follows.
Url(segs, slash, query, fragment) ==
    [segs |-> segs, slash |-> slash, query |-> query, fragment |-> fragment]

PageUrl(host, path) == Url(<<"https:", "", host>> \o path, FALSE, FALSE, FALSE)

UrlCatalog ==
    << PageUrl("example.com", <<"sobre">>),
       PageUrl("example.com", <<"Contact">>),
       PageUrl("example.com", <<"faq">>),
       PageUrl("example.com", <<"blog", "post">>),
       PageUrl("example.com", <<"blog">>),
       PageUrl("example.com", <<"page", "2">>),
       PageUrl("example.com", <<"2024", "03", "sobre">>),
       Url(<<"https:", "", "example.com", "faq">>, FALSE, TRUE, FALSE),
       Url(<<"https:", "", "example.com", "sobre">>, FALSE, FALSE, TRUE),
       PageUrl("sobre.example.com", <<"faq">>),
       PageUrl("example.com", <<"BLOG", "post">>),
       PageUrl("example.com", <<"p", "7">>),
       Url(<<"https:", "", "example.com", "sobre">>, TRUE, FALSE, FALSE),
       PageUrl("example.com", <<"2024", "03">>) >>

\* str.lower, and what re.IGNORECASE compares
Lower(text) ==
    CASE text = "Contact" -> "contact"
      [] text = "BLOG" -> "blog"
      [] OTHER -> text

\* The number of characters of a part that consists of digits, else 0.
DigitCount(text) ==
    CASE text \in {"2", "7"} -> 1
      [] text = "03" -> 2
      [] text = "2024" -> 4
      [] OTHER -> 0

priority_keywords ==
    {"about", "sobre", "quem-somos", "contact", "contato", "fale-conosco",
     "service", "servico", "servicos", "product", "produto", "produtos",
     "empresa", "company", "historia"}

\* any(kw in text for kw in priority_keywords)
ContainsKeyword(text) ==
    \/ text \in priority_keywords
    \/ text = "sobre.example.com"

\* The words of the patterns /blog/, /news/, ... that stand between two "/".
ExcludedWords == {"blog", "news", "noticia", "artigo", "category", "tag", "author"}

\* A "/" follows the i-th part of the URL.
SlashAfter(url, i) == i < Len(url.segs) \/ url.slash

\* any(re.search(pattern, url, re.IGNORECASE) for pattern in exclude_patterns)
MatchesExclude(url) ==
    \/ \E i \in 2..Len(url.segs) :
          Lower(url.segs[i]) \in ExcludedWords /\ SlashAfter(url, i)
    \/ \E i \in 2..(Len(url.segs) - 1) :
          Lower(url.segs[i]) \in {"page", "p"} /\ DigitCount(url.segs[i + 1]) > 0
    \/ \E i \in 2..(Len(url.segs) - 1) :
          /\ DigitCount(url.segs[i]) = 4
          /\ DigitCount(url.segs[i + 1]) = 2
          /\ SlashAfter(url, i + 1)
    \/ url.query
    \/ url.fragment

\* Faulty variant: the keywords are looked for in the host instead.
IsPriority_host(url) == ContainsKeyword(Lower(url.segs[3]))

\* path = urlparse(url).path.lower(); any(kw in path for kw in priority_keywords)
IsPriority(url) ==
    \E i \in 4..Len(url.segs) : ContainsKeyword(Lower(url.segs[i]))

MaxUrls == 3   \* URLs in a sitemap

FilterMainPages(urls) ==
    [pc |-> "_filter_main_pages", urls |-> urls, i |-> 1,
     filtered |-> <<>>, priority_urls |-> <<>>, result |-> <<>>]

NoFiltering == [FilterMainPages(<<>>) EXCEPT !.pc = "idle"]

\* One iteration of "for url in urls".
FilterUrl ==
    /\ filtering.pc = "_filter_main_pages"
    /\ filtering.i <= Len(filtering.urls)
    /\ LET url == filtering.urls[filtering.i]
           f == [filtering EXCEPT !.i = @ + 1]
       IN filtering' =
            IF MatchesExclude(url) THEN f
            ELSE IF IsPriority(url)
                 THEN [f EXCEPT !.priority_urls = Append(@, url)]
                 ELSE [f EXCEPT !.filtered = Append(@, url)]
    /\ UNCHANGED <<run, places_table, companies_table, queue, uuid, created,
                   fed, web, federal_queue, invocations, validation, ranking>>

\* return priority_urls + filtered
FilterReturn ==
    /\ filtering.pc = "_filter_main_pages"
    /\ filtering.i > Len(filtering.urls)
    /\ filtering' = [filtering EXCEPT
                       !.pc = "returned",
                       !.result = filtering.priority_urls \o filtering.filtered]
    /\ UNCHANGED <<run, places_table, companies_table, queue, uuid, created,
                   fed, web, federal_queue, invocations, validation, ranking>>

----------------------------------------------------------------------------
(* Specifications                                                          *)

EmptyTables ==
    /\ places_table = [p \in PlaceIds |-> {}]
    /\ companies_table = {}
    /\ queue = <<>>
    /\ uuid = 0
    /\ created = {}

\* One invocation of one of the three engines on empty tables.
Init ==
    /\ EmptyTables
    /\ federal_queue = <<>>
    /\ invocations = 0
    /\ validation = NoValidation
    /\ ranking = NoRanking
    /\ filtering = NoFiltering
    /\ \/ /\ \E nterms \in SearchTermCounts, limit \in QuotaLimits, db \in BOOLEAN :
                run = [r \in Runs |->
                         IF r = 1 THEN GMapsScrapper(nterms, limit, db, MaxResults, SearchCatalog)
                         ELSE Idle]
          /\ fed = FedIdle
          /\ web = WebIdle
       \/ /\ run = [r \in Runs |-> Idle]
          /\ \E cnpj_ok \in BOOLEAN, db \in BOOLEAN :
                fed = CompanyFederalScrapper(cnpj_ok, db)
          /\ web = WebIdle
       \/ /\ run = [r \in Runs |-> Idle]
          /\ fed = FedIdle
          /\ \E db \in BOOLEAN : web = WebsiteScrapper(db)

Next ==
    \/ \E r \in Runs : GMapsNext(r)
    \/ FederalNext
    \/ WebsiteNext

Spec == Init /\ [][Next]_vars

----------------------------------------------------------------------------
(* Several invocations of the place-discovery engine on the same tables    *)

MaxInvocations == 3  \* invocations started in one behaviour

RunsQuotaLimits == {50}

\* One place, unchanged or with a changed attribute; a place without a
\* website; a place without coordinates.
RunsCatalog ==
    { [id |-> "p1", name |-> "n1", geometry |-> PointA, website |-> "w1"],
      [id |-> "p1", name |-> "n2", geometry |-> PointA, website |-> "w1"],
      [id |-> "p2", name |-> "n1", geometry |-> PointB],
      [id |-> "p3", name |-> "n1"] }

\* The queue trigger starts an invocation in a free slot, for a niche of one
\* phrase whose search returns one place; invocations in different slots run
\* at the same time.
Invoke(r) ==
    /\ run[r].pc \in {"idle", "returned"}
    /\ invocations < MaxInvocations
    /\ invocations' = invocations + 1
    /\ \E limit \in RunsQuotaLimits :
           run' = SetInstance(run, r,
                      GMapsScrapper(1, limit, TRUE, 1, RunsCatalog))
    /\ UNCHANGED <<places_table, companies_table, queue, uuid, created, fed, web,
                   federal_queue, validation, ranking, filtering>>

InitRuns ==
    /\ EmptyTables
    /\ federal_queue = <<>>
    /\ invocations = 0
    /\ validation = NoValidation
    /\ ranking = NoRanking
    /\ filtering = NoFiltering
    /\ run = [r \in Runs |-> Idle]
    /\ fed = FedIdle
    /\ web = WebIdle

NextRuns == \E r \in Runs : Invoke(r) \/ GMapsNext(r)

SpecRuns == InitRuns /\ [][NextRuns]_vars

----------------------------------------------------------------------------
(* Calls of validate_cnpj                                                  *)

InitValidate ==
    /\ EmptyTables
    /\ federal_queue = <<>>
    /\ invocations = 0
    /\ run = [r \in Runs |-> Idle]
    /\ fed = FedIdle
    /\ web = WebIdle
    /\ ranking = NoRanking
    /\ filtering = NoFiltering
    /\ \E cnpj \in CnpjInputs :
          validation = [pc |-> "validate_cnpj", cnpj |-> cnpj, result |-> FALSE]

NextValidate == ValidateCnpj

SpecValidate == InitValidate /\ [][NextValidate]_vars

----------------------------------------------------------------------------
(* Calls of _discover_pages on a known site                                *)

TopTwo == 2   \* a value of MAX_PAGES_PER_SITE that a small site exceeds

InitDiscover ==
    /\ EmptyTables
    /\ federal_queue = <<>>
    /\ invocations = 0
    /\ run = [r \in Runs |-> Idle]
    /\ fed = FedIdle
    /\ web = WebIdle
    /\ validation = NoValidation
    /\ filtering = NoFiltering
    /\ \E site \in Sites, max_pages \in {TopTwo, MAX_PAGES_PER_SITE} :
          ranking = DiscoverPages(site, max_pages)

NextDiscover == RankValidate \/ RankSelect

SpecDiscover == InitDiscover /\ [][NextDiscover]_vars

----------------------------------------------------------------------------
(* Calls of _filter_main_pages                                             *)

InitFilter ==
    /\ EmptyTables
    /\ federal_queue = <<>>
    /\ invocations = 0
    /\ run = [r \in Runs |-> Idle]
    /\ fed = FedIdle
    /\ web = WebIdle
    /\ validation = NoValidation
    /\ ranking = NoRanking
    /\ \E n \in 0..MaxUrls :
          \E urls \in [1..n -> {UrlCatalog[k] : k \in DOMAIN UrlCatalog}] :
             filtering = FilterMainPages(urls)

NextFilter == FilterUrl \/ FilterReturn

SpecFilter == InitFilter /\ [][NextFilter]_vars

----------------------------------------------------------------------------
(* One invocation against an API that never runs out of pages              *)

PagingQuotaLimits == {20, 50, 100, 130}

InitPaging ==
    /\ EmptyTables
    /\ federal_queue = <<>>
    /\ invocations = 0
    /\ fed = FedIdle
    /\ web = WebIdle
    /\ validation = NoValidation
    /\ ranking = NoRanking
    /\ filtering = NoFiltering
    /\ \E nterms \in {1, 2}, limit \in PagingQuotaLimits, db \in BOOLEAN :
          run = [r \in Runs |->
                   IF r = 1
                   THEN [GMapsScrapper(nterms, limit, db, 0, SearchCatalog)
                           EXCEPT !.api_endless = TRUE]
                   ELSE Idle]

NextPaging == \E r \in Runs : GMapsNext(r)

\* collect_data runs to its end without being suspended.
SpecPaging == InitPaging /\ [][NextPaging]_vars /\ WF_vars(NextPaging)

----------------------------------------------------------------------------
(* Properties of the place-discovery engine                                *)

\* The step is a step of invocation r.
StepOf(r) == run'[r] # run[r]

QuotaLedgerOk(g) ==
    /\ g.quota_used = TEXT_SEARCH_QUOTA_COST * g.stats.text_searches
                      + PLACE_DETAILS_QUOTA_COST * g.stats.details_fetched
    /\ g.quota_used <= g.daily_quota_limit

\* C1: in every state of a run quota_used = 32 * text_searches + 17 *
\* details_fetched and quota_used <= daily_quota_limit, and a text-search or
\* details request is issued only from a state where quota_used plus the cost
\* of that request is within daily_quota_limit.
C1_QuotaLedger ==
    /\ \A r \in Runs : QuotaLedgerOk(run[r])
    /\ [][\A r \in Runs :
            /\ QuotaLedgerOk(run'[r])
            /\ (StepOf(r) /\ run'[r].last_call = "text_search")
                 => run[r].quota_used + TEXT_SEARCH_QUOTA_COST
                      <= run[r].daily_quota_limit
            /\ (StepOf(r) /\ run'[r].last_call = "details")
                 => run[r].quota_used + PLACE_DETAILS_QUOTA_COST
                      <= run[r].daily_quota_limit]_vars

\* C1 witness: one search page and one details call were paid (49 units of a
\* limit of 50) and the next quota check failed.
C1_Witness ==
    /\ run[1].daily_quota_limit = 50
    /\ run[1].stats.text_searches = 1
    /\ run[1].stats.details_fetched = 1
    /\ run[1].quota_used = 49
    /\ run[1].quota_failed

\* C2 as stated: once a quota check has failed, no text-search or details
\* request is issued any more, no later phrase is started, and the run returns
\* with status partial_quota_exceeded.
C2_Original ==
    [][\A r \in Runs :
         (run[r].quota_failed /\ StepOf(r))
           => /\ run'[r].last_call = "none"
              /\ run'[r].idx <= run[r].idx
              /\ run'[r].status = "partial_quota_exceeded"]_vars

\* C2 amended: once a quota check has failed, no text-search request is issued
\* any more, no later phrase is started and the status stays
\* partial_quota_exceeded until the run returns; a details request is still
\* issued for a result already fetched when its 17 units fit into the limit.
C2_HaltsAfterQuotaFailure ==
    [][\A r \in Runs :
         (run[r].quota_failed /\ StepOf(r))
           => /\ run'[r].last_call # "text_search"
              /\ run'[r].last_call = "details"
                   => run[r].quota_used + PLACE_DETAILS_QUOTA_COST
                        <= run[r].daily_quota_limit
              /\ run'[r].idx <= run[r].idx
              /\ run'[r].quota_failed
              /\ run'[r].status = "partial_quota_exceeded"]_vars

\* C2 witness: a run of three phrases returned with partial_quota_exceeded
\* after the first phrase, having fetched details after the failed check.
C2_Witness ==
    /\ run[1].pc = "returned"
    /\ run[1].search_terms = 3
    /\ run[1].quota_failed
    /\ run[1].status = "partial_quota_exceeded"
    /\ run[1].stats.text_searches = 1
    /\ run[1].stats.details_fetched = 1

UniqueIds(places) ==
    \A i, j \in 1..Len(places) : i # j => places[i].id # places[j].id

\* The step iterates a result whose identifier is in ids.
IteratesOneOf(r, ids) ==
    /\ StepOf(r)
    /\ run[r].pc = "process"
    /\ run'[r].text_results = run[r].text_results - 1
    /\ run'[r].result_id # {}
    /\ run'[r].result_id \subseteq ids

CountedAsIdDuplicate(r) ==
    /\ run'[r].stats.duplicates_by_id = run[r].stats.duplicates_by_id + 1
    /\ run'[r].last_call # "details"
    /\ run'[r].places = run[r].places

\* C5 as stated: every occurrence of an identifier after its first one
\* increments duplicates_by_id by one, triggers no details request and is not
\* accepted; the accepted set never holds two records with one identifier.
C5_Original ==
    /\ \A r \in Runs : UniqueIds(run[r].places)
    /\ [][\A r \in Runs :
            /\ UniqueIds(run'[r].places)
            /\ IteratesOneOf(r, run[r].returned_ids) => CountedAsIdDuplicate(r)]_vars

\* C5 amended: every later occurrence of an identifier that was accepted
\* increments duplicates_by_id by one, triggers no details request and is not
\* accepted, so the accepted set never holds two records with one identifier;
\* a repeated identifier whose earlier occurrences were rejected as location
\* duplicates goes through the location check again.
C5_AcceptedIdsNeverRepeat ==
    /\ \A r \in Runs : UniqueIds(run[r].places)
    /\ [][\A r \in Runs :
            /\ UniqueIds(run'[r].places)
            /\ IteratesOneOf(r, run[r].seen_place_ids) => CountedAsIdDuplicate(r)
            /\ IteratesOneOf(r, run[r].returned_ids \ run[r].seen_place_ids)
                 => \/ run'[r].stats.duplicates_by_location
                         = run[r].stats.duplicates_by_location + 1
                    \/ Len(run'[r].places) = Len(run[r].places) + 1]_vars

\* C5 witness: an accepted identifier was returned again and counted.
C5_Witness ==
    /\ run[1].stats.duplicates_by_id = 1
    /\ Len(run[1].places) = 1
    /\ run[1].result_id = {run[1].places[1].id}

\* C6 as stated: a run for a niche with at least one phrase returns with
\* completed (something accepted), completed_no_results (nothing accepted) or
\* partial_quota_exceeded (a quota check failed).
C6_Original ==
    \A r \in Runs :
      (run[r].pc = "returned" /\ run[r].search_terms >= 1)
        => /\ run[r].status \in {"completed", "completed_no_results",
                                 "partial_quota_exceeded"}
           /\ run[r].status = "completed" => run[r].places # <<>>
           /\ run[r].status = "completed_no_results" => run[r].places = <<>>
           /\ run[r].status = "partial_quota_exceeded" => run[r].quota_failed

----------------------------------------------------------------------------
(* Properties of persistence, over several invocations                     *)

\* The place the save loop of g is at.
CurrentPlace(g) == g.places[g.place_i]

StoredCompanyIds == {c.companyID : c \in companies_table}

\* The step inserts the place item of a new place, linked to its company.
InsertsLinkedPlace(r) ==
    LET g == run[r]
        place == CurrentPlace(g) IN
    /\ \E item \in places_table'[place.id] :
          /\ places_table'[place.id] = {item}
          /\ item.placeID = place.id
          /\ "companyID" \in DOMAIN item
          /\ item.companyID = g.company_id
    /\ g.company_id \in StoredCompanyIds
    /\ run'[r].stats.new_places = g.stats.new_places + 1

EnqueuesWebsiteTask(r) ==
    LET g == run[r]
        place == CurrentPlace(g) IN
    /\ "website" \in DOMAIN place
    /\ queue' = Append(queue, [company_id |-> g.company_id,
                               website |-> place.website])
    /\ run'[r].stats.website_tasks_queued = g.stats.website_tasks_queued + 1

\* C7 as stated: an accepted candidate whose identifier is absent from the
\* place store gets one CompanyRecord and one PlaceRecord referencing it,
\* new_places grows by one and a website message is enqueued exactly when the
\* candidate has a website; no message is enqueued for an updated or skipped
\* place.
C7_Original ==
    [][\A r \in Runs : StepOf(r) =>
         LET g == run[r] IN
         /\ (/\ g.pc = "save" /\ g.place_i <= Len(g.places)
             /\ places_table[CurrentPlace(g).id] = {})
              => run'[r].pc = "save_write"
         /\ (g.pc = "save_write" /\ places_table[CurrentPlace(g).id] = {})
              => /\ Cardinality(companies_table') = Cardinality(companies_table) + 1
                 /\ run'[r].pc = "save_place"
         /\ g.pc = "save_place"
              => /\ InsertsLinkedPlace(r)
                 /\ EnqueuesWebsiteTask(r) <=> "website" \in DOMAIN CurrentPlace(g)
         /\ g.pc # "save_place" => queue' = queue]_vars

\* C7 amended: an accepted candidate with coordinates whose lookup finds no
\* stored item gets one new CompanyRecord unless the insert fails; once the
\* company is stored, the PlaceRecord written for the candidate references
\* it and new_places grows by one, unless that insert fails; a website
\* message is enqueued only for a place inserted this way that has a website
\* (and not when the queue is not configured or the send fails); a candidate
\* without coordinates is skipped without any write; no message is enqueued
\* and no company created for an updated or skipped place.
C7_NewPlacePersistence ==
    [][\A r \in Runs : StepOf(r) =>
         LET g == run[r] IN
         /\ (/\ g.pc = "save" /\ g.place_i <= Len(g.places))
              => /\ places_table' = places_table
                 /\ companies_table' = companies_table
                 /\ run'[r].stats = g.stats
                 /\ run'[r].pc = "save_write" <=> HasCoords(CurrentPlace(g))
         /\ (g.pc = "save_write" /\ g.existing_place = {})
              => /\ places_table' = places_table
                 /\ run'[r].stats = g.stats
                 /\ \/ /\ Cardinality(companies_table') = Cardinality(companies_table) + 1
                       /\ run'[r].company_id \in StoredCompanyIds' \ StoredCompanyIds
                       /\ run'[r].pc = "save_place"
                    \/ /\ companies_table' = companies_table
                       /\ run'[r].pc = "save"
         /\ g.pc = "save_place"
              => /\ companies_table' = companies_table
                 /\ \/ /\ InsertsLinkedPlace(r)
                       /\ \/ EnqueuesWebsiteTask(r)
                          \/ /\ queue' = queue
                             /\ run'[r].stats.website_tasks_queued
                                  = g.stats.website_tasks_queued
                    \/ /\ places_table' = places_table
                       /\ queue' = queue
                       /\ run'[r].stats = g.stats
         /\ g.pc # "save_place" => queue' = queue
         /\ (g.pc = "save_write" /\ g.existing_place # {})
              => companies_table' = companies_table]_vars

\* C7 witness: a new place with a website was inserted with its company and
\* its message enqueued, a new place without a website was inserted without a
\* message, and a later invocation updated a stored place.
C7_Witness ==
    /\ Len(queue) = 1
    /\ places_table["p1"] # {}
    /\ places_table["p2"] # {}
    /\ Cardinality(companies_table) = 2
    /\ \E r \in Runs : run[r].stats.updated_places = 1

\* The candidate carries exactly what is stored for its identifier.
SameAttributes(existing, place) ==
    /\ existing.placeID = place.id
    /\ \A key \in (DOMAIN place) \ {"id"} :
          key \in DOMAIN existing /\ existing[key] = place[key]

\* C8 as stated: a stored place is written, and updated_places incremented,
\* only if some attribute of the candidate differs from what is stored; a
\* candidate identical to what a previous run persisted causes no write and
\* increments skipped_places.
C8_Original ==
    [][\A r \in Runs :
         (StepOf(r) /\ run[r].pc = "save_write" /\ run[r].existing_place # {})
           => LET g == run[r]
                  same == \A e \in g.existing_place :
                              SameAttributes(e, CurrentPlace(g)) IN
              /\ (\/ places_table' # places_table
                  \/ run'[r].stats.updated_places # g.stats.updated_places)
                   => ~ same
              /\ same => /\ places_table' = places_table
                         /\ run'[r].stats.skipped_places
                              = g.stats.skipped_places + 1]_vars

\* C9 as stated: for every place identifier at most one CompanyRecord is
\* ever created, whatever the sequence or interleaving of invocations.
C9_Original ==
    \A p \in PlaceIds : Cardinality({c \in created : c[2] = p}) <= 1

\* C10 as stated: when collect_data of any of the three engines has returned,
\* status is a terminal value (never in_progress) and status_reason is not
\* empty.
C10_Original ==
    /\ \A r \in Runs :
         run[r].pc = "returned"
           => run[r].status # "in_progress" /\ run[r].status_reason # ""
    /\ fed.pc = "returned"
         => fed.status # "in_progress" /\ fed.status_reason # ""
    /\ web.pc = "returned"
         => web.status # "in_progress" /\ web.status_reason # ""

----------------------------------------------------------------------------
(* Properties of error handling                                            *)

FailedStatuses ==
    {"failed", "failed_api_error", "failed_database_error", "failed_no_search_terms"}

\* C11 as stated: when a step of collect_data has raised an unexpected
\* exception, collect_data of that engine returns with a failed status and
\* the outcome persisted.
C11_Original ==
    /\ \A r \in Runs :
         (run[r].pc = "returned" /\ run[r].unexpected)
           => run[r].status \in FailedStatuses
    /\ (fed.pc = "returned" /\ fed.status_reason = "Unexpected error")
         => (fed.status = "failed" /\ (fed.db_handler => fed.saved))
    /\ (web.pc = "returned" /\ web.status_reason = "Scraping error")
         => (web.status = "failed" /\ (web.db_handler => web.saved))

\* C12: a run for a niche without search phrases returns at its first step
\* with status failed_no_search_terms and a non-empty reason; it issues no
\* request, consumes no quota, accepts no place and writes nothing to the
\* tables or the queue.
C12_NoSearchTerms ==
    /\ [](\A r \in Runs :
            run[r].search_terms = 0 =>
              /\ run[r].quota_used = 0 /\ run[r].stats = ZeroStats
              /\ run[r].places = <<>> /\ run[r].last_call = "none"
              /\ run[r].pc \in {"idle", "collect_data", "returned"})
    /\ [][\A r \in Runs :
            (StepOf(r) /\ run[r].pc = "collect_data" /\ run[r].search_terms = 0)
              => /\ run'[r].pc = "returned"
                 /\ run'[r].status = "failed_no_search_terms"
                 /\ run'[r].status_reason # ""
                 /\ run'[r].last_call = "none"
                 /\ run'[r].quota_used = 0 /\ run'[r].stats = ZeroStats
                 /\ run'[r].places = <<>>
                 /\ places_table' = places_table
                 /\ companies_table' = companies_table
                 /\ queue' = queue]_vars

\* C12 witness: a run without phrases has returned.
C12_Witness ==
    /\ run[1].pc = "returned"
    /\ run[1].search_terms = 0
    /\ run[1].status = "failed_no_search_terms"
    /\ queue = <<>> /\ companies_table = {}

----------------------------------------------------------------------------
(* Properties of the registry lookup                                       *)

\* The answer to the latest request of the lookup f.
LastAnswer(f) == f.log[Len(f.log)]

Answered(f) == f.log # <<>>

\* The update of the CompanyRecord raised.
SaveRaised(f) == f.status_reason = "Database save failed"

\* The CompanyRecord holds the payload and the outcome of the lookup.
FederalPersisted(payload, status) ==
    \E c \in companies_table :
       /\ c.companyID = TargetCompany
       /\ "federal_data" \in DOMAIN c
       /\ c.federal_data = payload
       /\ c.federal_scraping_status = status
       /\ c.federal_scraping_reason = fed.status_reason

IsTimeoutOr429(answer) ==
    \/ answer = [op |-> "http", n |-> 429]
    \/ answer.op \in {"connect_timeout", "read_timeout", "timeout"}

IsOtherNetworkError(answer) == answer.op = "request_error"

RetriedOrFailedAtThird(answer_is_transient) ==
    (fed.pc = "fetch" /\ fed' # fed /\ answer_is_transient)
      => IF fed.attempt <= 2
         THEN /\ fed'.pc = "fetch"
              /\ fed'.attempt = fed.attempt + 1
              /\ fed'.status = "in_progress"
         ELSE /\ fed'.pc = "fetched"
              /\ fed'.status = "failed"

\* C14 as stated: a 429, a timeout or a transient network error on the first
\* or second attempt is followed by another attempt; such an error ends the
\* run as failed only on the third attempt.
C14_Original ==
    [][RetriedOrFailedAtThird(\/ IsTimeoutOr429(LastAnswer(fed'))
                              \/ IsOtherNetworkError(LastAnswer(fed')))]_vars

\* C14 amended: a 429 or a timeout (connect, read or general) on the first or
\* second attempt is followed by another attempt, and ends the run as failed
\* only on the third attempt; any other network error of the request ends
\* the run as failed on the attempt where it occurs, without a retry.
C14_RetryOn429AndTimeout ==
    [][/\ RetriedOrFailedAtThird(IsTimeoutOr429(LastAnswer(fed')))
       /\ (fed.pc = "fetch" /\ fed' # fed /\ IsOtherNetworkError(LastAnswer(fed')))
            => /\ fed'.pc = "fetched"
               /\ fed'.requests = fed.requests + 1
               /\ fed'.status = "failed"
               /\ fed'.status_reason = "API request failed"]_vars

\* C14 witness: a timeout on the first attempt and a 429 on the second were
\* each followed by another attempt, and a timeout on the third ended the run.
C14_Witness ==
    /\ fed.pc = "fetched"
    /\ Len(fed.log) = 9
    /\ fed.log[3].op = "read_timeout"
    /\ fed.log[6] = [op |-> "http", n |-> 429]
    /\ fed.log[9].op = "connect_timeout"
    /\ fed.status = "failed"

\* The answers were 429, 429 and 200 with the registry record.
Scenario429_429_200 ==
    /\ Len(fed.log) = 9
    /\ fed.log[3] = [op |-> "http", n |-> 429]
    /\ fed.log[6] = [op |-> "http", n |-> 429]
    /\ fed.log[9] = [op |-> "http", n |-> 200]
    /\ fed.federal_data = "registry_record"

NotFoundOutcome ==
    (Answered(fed) /\ LastAnswer(fed) = [op |-> "http", n |-> 404])
      => /\ fed.pc \in {"fetched", "returned"}
         /\ ~ fed.data_fetched
         /\ fed.federal_data = "None"
         /\ ~ SaveRaised(fed)
              => /\ fed.status = "completed"
                 /\ fed.status_reason = "CNPJ not found in federal registry"
         /\ (fed.pc = "returned" /\ fed.db_handler /\ ~ SaveRaised(fed))
              => FederalPersisted("{}", "completed")

Is2xx(answer) == answer.op = "http" /\ answer.n \div 100 = 2

\* C17 as stated: when a request was answered 2xx the run returns with status
\* completed, data_fetched = true and the payload persisted together with
\* federal_scraping_status completed.
C17_Original ==
    (fed.pc = "returned" /\ Answered(fed) /\ Is2xx(LastAnswer(fed))
       /\ fed.db_handler /\ ~ SaveRaised(fed))
      => /\ fed.status = "completed"
         /\ fed.data_fetched
         /\ FederalPersisted(fed.federal_data, "completed")

----------------------------------------------------------------------------
(* Properties of validate_cnpj                                             *)

\* The argument differs from the example in exactly one digit.
OneDigitReplaced(cnpj) ==
    \E i \in 1..14, x \in DigitChars :
       /\ x # ExampleDigits[i]
       /\ cnpj \in {Replaced(ExampleDigits, i, x),
                    Formatted(Replaced(ExampleDigits, i, x))}

\* The argument is 14 times the same digit.
IdenticalDigits(cnpj) ==
    \E x \in DigitChars :
       cnpj \in {[i \in 1..14 |-> x], Formatted([i \in 1..14 |-> x])}

\* C18: validate_cnpj accepts "11.222.333/0001-81"; it rejects every string
\* obtained from it by replacing one of its 14 digits by a different digit,
\* and every string of 14 identical digits.
C18_ValidateCnpj ==
    validation.pc = "returned"
      => /\ validation.cnpj = Formatted(ExampleDigits) => validation.result
         /\ OneDigitReplaced(validation.cnpj) => ~ validation.result
         /\ IdenticalDigits(validation.cnpj) => ~ validation.result

\* C18 witness: the example with its second check digit replaced by 0 was
\* rejected.
C18_Witness ==
    /\ validation.pc = "returned"
    /\ validation.cnpj = Formatted(Replaced(ExampleDigits, 14, "0"))
    /\ ~ validation.result

----------------------------------------------------------------------------
(* Properties of the robots.txt check                                      *)

\* Nothing of the scraping has happened in the website run.
NothingScraped(w) ==
    /\ ~ w.discovery
    /\ w.pages_fetched = 0 /\ w.pages_failed = 0
    /\ w.llm_calls = 0
    /\ federal_queue = <<>>

\* The CompanyRecord holds the payload and the outcome of the website run.
WebsitePersisted(payload, status) ==
    \E c \in companies_table :
       /\ c.companyID = TargetCompany
       /\ "website_data" \in DOMAIN c
       /\ c.website_data = payload
       /\ c.website_scraping_status = status
       /\ c.website_scraping_reason = web.status_reason

WebSaveRaised(w) == w.status_reason = "Database save failed"

C20_RobotsFailOpen ==
    /\ [](web.robots \in {"read_error", "can_fetch_error"} => web.discovery)
    /\ [][(web.pc = "collect_data"
             /\ web'.robots \in {"read_error", "can_fetch_error"})
            => /\ web'.pc = "discover"
               /\ web'.status = "in_progress"
               /\ ~ web'.saved
               /\ companies_table' = companies_table]_vars

\* C20 witness: robots.txt could not be read and the candidates were
\* collected.
C20_Witness ==
    /\ web.robots = "read_error"
    /\ web.discovery
    /\ web.pc = "validate"

----------------------------------------------------------------------------
(* Properties of page discovery                                            *)

\* url is in the returned list.
Selected(url) == \E i \in DOMAIN ranking.selected_pages : ranking.selected_pages[i] = url

\* C21: _discover_pages returns at most MAX_PAGES_PER_SITE URLs (at most the
\* value in force), without repetition, each of which was fetched with
\* content at validation, in descending order of validated content size; a
\* fetched candidate that is left out is no larger than any returned one; and
\* for sizes 500, 3000, 100, 8000 with a bound of 2 the result is the
\* 8000-byte page followed by the 3000-byte page.
C21_TopPagesBySize ==
    ranking.pc = "returned"
      => LET sel == ranking.selected_pages
             size == ranking.site
             fetched == {u \in DOMAIN size : size[u] > 0}
         IN /\ Len(sel) <= ranking.max_pages
            /\ ranking.max_pages <= MAX_PAGES_PER_SITE
            /\ Len(sel) = IF Cardinality(fetched) < ranking.max_pages
                          THEN Cardinality(fetched) ELSE ranking.max_pages
            /\ \A i \in DOMAIN sel : sel[i] \in fetched
            /\ \A i, j \in DOMAIN sel : i < j => sel[i] # sel[j] /\ size[sel[i]] >= size[sel[j]]
            /\ \A u \in DOMAIN size :
                  (size[u] >= 0 /\ ~ Selected(u))
                     => \A i \in DOMAIN sel : size[u] <= size[sel[i]]
            /\ (size = <<500, 3000, 100, 8000>> /\ ranking.max_pages = 2)
                  => sel = <<4, 2>>

\* C21 witness: a site with more fetched pages than MAX_PAGES_PER_SITE was
\* cut to that number, the smallest pages being left out.
C21_Witness ==
    /\ ranking.pc = "returned"
    /\ ranking.site = [u \in 1..LargeSite |-> 100 * u]
    /\ ranking.max_pages = MAX_PAGES_PER_SITE
    /\ Len(ranking.selected_pages) = MAX_PAGES_PER_SITE
    /\ ranking.selected_pages[1] = LargeSite
    /\ ~ Selected(1)

\* The URLs of the catalog that match an exclusion pattern: /blog/post,
\* /page/2, /2024/03/sobre, /faq?x, /sobre#top, /BLOG/post and /p/7.
ExcludedUrls == {UrlCatalog[k] : k \in {4, 6, 7, 8, 9, 11, 12}}

\* The URLs of the catalog with a keyword in their path: /sobre, /Contact,
\* /2024/03/sobre, /sobre#top and /sobre/.
KeywordInPath == {UrlCatalog[k] : k \in {1, 2, 7, 9, 13}}

\* The URLs of the catalog with a keyword anywhere: those, and
\* sobre.example.com/faq.
KeywordAnywhere == KeywordInPath \cup {UrlCatalog[10]}

\* In the returned list every URL of the set comes before every other URL.
ComesFirst(urls) ==
    \A i, j \in DOMAIN filtering.result :
       (filtering.result[i] \notin urls /\ filtering.result[j] \in urls) => j < i

\* The returned list holds the URLs of the argument that match no exclusion
\* pattern, each as often as the argument does.
KeepsTheRest ==
    \A url \in {UrlCatalog[k] : k \in DOMAIN UrlCatalog} :
       Cardinality({i \in DOMAIN filtering.result : filtering.result[i] = url})
         = IF url \in ExcludedUrls THEN 0
           ELSE Cardinality({i \in DOMAIN filtering.urls : filtering.urls[i] = url})

\* C22 as stated: the returned list has no URL that matches an exclusion
\* pattern, and every URL containing a keyword comes before every URL
\* without one.
C22_Original ==
    filtering.pc = "returned" => KeepsTheRest /\ ComesFirst(KeywordAnywhere)

\* C22 amended: the returned list has no URL that matches an exclusion
\* pattern and keeps every other URL of the argument; every URL whose path
\* contains a keyword (compared in lower case) comes before every URL whose
\* path contains none, a keyword in the host name giving no precedence.
C22_PathKeywordsFirst ==
    filtering.pc = "returned" => KeepsTheRest /\ ComesFirst(KeywordInPath)

\* C22 witness: of /faq, /blog/post and /Contact the second was dropped and
\* the third moved to the front.
C22_Witness ==
    /\ filtering.pc = "returned"
    /\ filtering.urls = <<UrlCatalog[3], UrlCatalog[4], UrlCatalog[2]>>
    /\ filtering.result = <<UrlCatalog[2], UrlCatalog[3]>>

----------------------------------------------------------------------------
(* Properties of the outcome of a website run                              *)

\* The website run went past the robots check and returned without an
\* unexpected exception and without a failing database update.
OrdinaryReturn(w) ==
    /\ w.pc = "returned"
    /\ w.discovery
    /\ w.status_reason \notin {"Scraping error", "Database save failed"}

\* Every page of the selected fetch set was fetched.
AllSelectedFetched(w) == w.pages_content = w.tried

ExtractedData(w) == w.website_data \notin {"None", "{}"}

\* C23 as stated: after the robots check the run ends completed exactly when
\* every selected page was fetched and the extraction returned data, partial
\* when a selected page failed to fetch or none was fetched, and failed when
\* the extraction returned nothing.
C23_Original ==
    OrdinaryReturn(web)
      => /\ web.status = "completed"
              <=> (AllSelectedFetched(web) /\ ExtractedData(web))
         /\ (web.pages_content = 0
               \/ (~ AllSelectedFetched(web) /\ ExtractedData(web)))
              => web.status = "partial"
         /\ web.website_data = "{}" => web.status = "failed"

C25_FederalTaskOnlyForValidCnpj ==
    /\ Len(federal_queue) <= 1
    /\ federal_queue # <<>>
         => /\ web.pc = "returned"
            /\ web.website_data = "valid_cnpj"
            /\ federal_queue[1].company_id = TargetCompany
    /\ web.website_data \in {"{}", "no_cnpj", "invalid_cnpj", "short_cnpj"}
         => federal_queue = <<>>

\* C25 witness: a run whose payload held the valid identifier enqueued the
\* message.
C25_Witness ==
    /\ web.pc = "returned"
    /\ web.website_data = "valid_cnpj"
    /\ Len(federal_queue) = 1

----------------------------------------------------------------------------
(* Properties of acceptance, pagination and the quota ledger               *)

\* Invocation r handles a search result that has an identifier and is
\* counted neither as an identifier duplicate nor as a location duplicate.
PassesBothChecks(r) ==
    /\ run[r].pc = "process"
    /\ run'[r].text_results = run[r].text_results - 1
    /\ run'[r].result_id # {}
    /\ run'[r].stats.duplicates_by_id = run[r].stats.duplicates_by_id
    /\ run'[r].stats.duplicates_by_location = run[r].stats.duplicates_by_location

\* C26: a result that passes the identifier and the location duplicate check
\* is appended to the accepted places, whether its details were fetched or
\* not; when they were not (no quota left, or the details call failed) the
\* accepted record is the search result itself, without any details field.
C26_AcceptedWithoutDetails ==
    [][\A r \in Runs :
         PassesBothChecks(r)
           => LET places == run'[r].places
                  last == places[Len(places)]
              IN /\ Len(places) = Len(run[r].places) + 1
                 /\ SubSeq(places, 1, Len(places) - 1) = run[r].places
                 /\ last.id \in run'[r].result_id
                 /\ IF run'[r].stats.details_fetched = run[r].stats.details_fetched
                    THEN last \in run[r].api_catalog
                    ELSE /\ "reviews" \in DOMAIN last
                         /\ Without(last, "reviews") \in run[r].api_catalog]_vars

\* C26 witness: a place was accepted with search-only fields after the
\* quota check of its details call had failed.
C26_Witness ==
    \E r \in Runs :
       /\ run[r].quota_failed
       /\ run[r].last_call = "none"
       /\ run[r].places # <<>>
       /\ "reviews" \notin DOMAIN run[r].places[Len(run[r].places)]
       /\ run[r].places[Len(run[r].places)].id \in run[r].result_id

\* A step of the pagination of invocation r either stays in the pagination,
\* after a paid page that returned places and a continuation token, or ends
\* it: the quota check failed, the request raised, or the page had no places
\* or no token.
PaginationStep(r) ==
    (run[r].pc = "text_search" /\ StepOf(r))
      => IF run'[r].pc = "text_search"
         THEN /\ run'[r].next_page_token
              /\ run'[r].text_results > run[r].text_results
              /\ run'[r].page_count = run[r].page_count + 1
              /\ run'[r].quota_used = run[r].quota_used + TEXT_SEARCH_QUOTA_COST
         ELSE /\ run'[r].pc = "process"
              /\ \/ run'[r].last_call = "none" /\ run'[r].quota_failed
                                               /\ run'[r].quota_used = run[r].quota_used
                 \/ run'[r].search_errors /\ run'[r].quota_used = run[r].quota_used
                 \/ /\ run'[r].page_count = run[r].page_count + 1
                    /\ \/ run'[r].text_results = run[r].text_results
                       \/ ~ run'[r].next_page_token

\* C27: the pagination of a phrase always ends: it goes on only after a page
\* that returned places and a continuation token, and stops on a request
\* error or a failed quota check; every page costs TEXT_SEARCH_QUOTA_COST
\* units, so an invocation is served at most
\* daily_quota_limit / TEXT_SEARCH_QUOTA_COST pages (rounded down) even when
\* every page carries a continuation token.
C27_PaginationTerminates ==
    /\ [](\A r \in Runs :
            run[r].stats.text_searches
              <= run[r].daily_quota_limit \div TEXT_SEARCH_QUOTA_COST)
    /\ [][\A r \in Runs : PaginationStep(r)]_vars
    /\ \A r \in Runs : (run[r].pc = "text_search") ~> (run[r].pc = "process")

\* C27 witness: four pages were served, each with a continuation token, and
\* the quota check stopped the fifth.
C27_Witness ==
    /\ run[1].pc = "process"
    /\ run[1].daily_quota_limit = 130
    /\ run[1].stats.text_searches = 4
    /\ run[1].page_count = 4
    /\ run[1].next_page_token
    /\ run[1].quota_failed

\* C28: the quota ledger belongs to one invocation: a step that changes the
\* quota_used of one invocation changes nothing of any other invocation, and
\* every invocation stays within its own daily_quota_limit; two invocations
\* running at the same time can together consume more than
\* daily_quota_limit (the witness).
C28_LedgerPerInvocation ==
    /\ [](\A r \in Runs : run[r].quota_used <= run[r].daily_quota_limit)
    /\ [][\A r1, r2 \in Runs :
            (r1 # r2 /\ run'[r1].quota_used # run[r1].quota_used)
              => run'[r2] = run[r2]]_vars

\* C28 witness: two invocations with the same limit are running, each within
\* the limit, and their consumption together exceeds it.
C28_Witness ==
    /\ \A r \in Runs : run[r].pc \notin {"idle", "returned"}
    /\ run[1].daily_quota_limit = run[2].daily_quota_limit
    /\ \A r \in Runs : run[r].quota_used <= run[r].daily_quota_limit
    /\ run[1].quota_used > 0 /\ run[2].quota_used > 0
    /\ run[1].quota_used + run[2].quota_used > run[1].daily_quota_limit

\* The insert of the place item of invocation r raises in this step: the
\* CompanyRecord was written in the step before.
PlaceInsertFails(r) ==
    /\ run[r].pc = "save_place"
    /\ run'[r] # run[r]
    /\ places_table' = places_table

\* C29: when the insert of the PlaceRecord fails after its CompanyRecord was
\* created, the CompanyRecord stays in the companies table and no place item
\* refers to it, stats.new_places is not incremented, no website task is
\* queued, the status is kept, and the loop goes on with the next place.
C29_OrphanCompanyOnPlaceFailure ==
    [][\A r \in Runs :
          PlaceInsertFails(r) =>
             /\ \E c \in companies_table' : c.companyID = run[r].company_id
             /\ companies_table' = companies_table
             /\ \A id \in DOMAIN places_table' : \A item \in places_table'[id] :
                   "companyID" \in DOMAIN item
                      => item.companyID # run[r].company_id
             /\ run'[r].stats = run[r].stats
             /\ queue' = queue
             /\ run'[r].status = run[r].status
             /\ run'[r].pc = "save"
             /\ run'[r].place_i = run[r].place_i + 1
             /\ run'[r].places = run[r].places]_vars

\* C29 witness: a run that returned with two places to save created a
\* company for the first, whose place item is missing, and recorded the
\* second as a new place.
C29_Witness ==
    \E r \in Runs :
       /\ run[r].pc = "returned"
       /\ Len(run[r].places) = 2
       /\ run[r].stats.new_places = 1
       /\ \E c \in companies_table :
             /\ \A id \in DOMAIN places_table : \A item \in places_table[id] :
                   "companyID" \in DOMAIN item => item.companyID # c.companyID
             /\ \E d \in companies_table :
                   /\ d.companyID > c.companyID
                   /\ \E id \in DOMAIN places_table : \E item \in places_table[id] :
                         "companyID" \in DOMAIN item /\ item.companyID = d.companyID

----------------------------------------------------------------------------
(* Properties of the stored status                                         *)

\* The CompanyRecord of every company a returned place-discovery invocation
\* created holds the status the invocation reports.
PlaceStatusStored ==
    \A r \in Runs :
       run[r].pc = "returned"
         => \A c \in companies_table :
               (\E p \in created : p[1] = c.companyID)
                  => c.collection_status = run[r].status

\* The CompanyRecord a returned website run wrote holds the reported status.
WebsiteStatusStored ==
    (web.pc = "returned" /\ web.saved /\ ~ WebSaveRaised(web))
      => \E c \in companies_table :
            /\ c.companyID = TargetCompany
            /\ "website_scraping_status" \in DOMAIN c
            /\ c.website_scraping_status = web.status

\* The CompanyRecord a returned registry lookup wrote holds the reported
\* status.
FederalStatusStored ==
    (fed.pc = "returned" /\ fed.saved /\ ~ SaveRaised(fed))
      => \E c \in companies_table :
            /\ c.companyID = TargetCompany
            /\ "federal_scraping_status" \in DOMAIN c
            /\ c.federal_scraping_status = fed.status

\* C30 as stated: when an engine's write succeeded, the status stored in the
\* CompanyRecord (collection_status, website_scraping_status,
\* federal_scraping_status) equals the status the engine reports when
\* collect_data returns.
C30_Original ==
    /\ PlaceStatusStored
    /\ WebsiteStatusStored
    /\ FederalStatusStored

====
